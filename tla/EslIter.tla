------------------------------ MODULE EslIter -------------------------------
(***************************************************************************)
(* The iterator over the signatures of a file of EFI_SIGNATURE_LISTs       *)
(* (esl-iter.c), and the files efi_secdb_realize writes.                   *)
(*                                                                         *)
(* A file is what stands at which offset, in words of four bytes: len, the *)
(* heads of its lists, its signatures, and the offset from which on it is  *)
(* zeros.  The sizes in a head are claims; the heads themselves are whole. *)
(***************************************************************************)
EXTENDS Integers, Sequences, SequencesExt

EslSize == 7

OwnerSize == 4

\* A pointer that was never set.
Null == -1

\* What is read where no signature starts.
Garbage(n) == [owner |-> 0, data |-> [i \in 1 .. n |-> 255]]

ZeroHead == [type |-> "zero", listsz |-> 0, hdrsz |-> 0, sigsz |-> 0]

HeadAt(f, it, at) == IF at \in DOMAIN it.heads THEN it.heads[at] ELSE ZeroHead

-----------------------------------------------------------------------------
(* The iterator: esl_list_iter with the list it stands at (esl, off) and   *)
(* esl_iter with the signature (esd), its number and how many there are.   *)

\* esl_iter_new and esl_list_iter_new
TooSmall(f) == f.len < EslSize + OwnerSize

New(f) == [esl |-> Null, off |-> 0, esd |-> Null, i |-> -1, nmemb |-> 0, heads |-> f.heads]

Result(it, rc) == [it |-> it, rc |-> rc]

\* The list at off claims more than there is; if that is to be corrected, the
\* claim is overwritten.
Corrected(f, it, at, off, correct) ==
    IF HeadAt(f, it, at).listsz <= f.len - off THEN Result(it, "ok")
    ELSE IF correct THEN Result([it EXCEPT !.heads[at].listsz = f.len - off], "ok")
    ELSE Result([it EXCEPT !.esl = at, !.off = off], "overflow")

\* Mutant: the size of the list that was just read is not added.
ListNextSticking(f, it, correct) ==
    LET here == [it EXCEPT !.esl = 0]
    IN IF it.off >= f.len THEN Result(it, "invalid")
       ELSE IF HeadAt(f, it, 0).listsz > f.len THEN Result(here, "overflow")
       ELSE Result(here, IF it.esl = Null THEN "list" ELSE "done")

\* esl_list_iter_next_with_size_correction: the list it stands at is checked
\* before the step over it, and the next one after.
ListNext(f, it, correct) ==
    LET at   == IF it.esl = Null THEN 0 ELSE it.esl
        here == Corrected(f, it, at, it.off, correct)
        off  == IF it.esl = Null THEN it.off ELSE it.off + HeadAt(f, here.it, at).listsz
        next == Corrected(f, here.it, off, off, correct)
    IN IF it.off >= f.len THEN Result(it, "invalid")
       ELSE IF here.rc # "ok" THEN here
       ELSE IF off >= f.len THEN Result([here.it EXCEPT !.off = off], "done")
       ELSE IF HeadAt(f, here.it, off) = ZeroHead
            THEN Result([here.it EXCEPT !.esl = off, !.off = off], "done")
       ELSE IF next.rc # "ok" THEN next
       ELSE Result([next.it EXCEPT !.esl = off, !.off = off], "list")

\* esl_list_sig_size, esl_list_signature_list_size
BadSizes(h) == h.sigsz < 1 \/ h.listsz < EslSize

\* esl_iter_next_with_size_correction after a new list was found
FirstOfList(f, it) ==
    LET h    == HeadAt(f, it, it.esl)
        room == h.listsz - EslSize - h.hdrsz
    IN IF BadSizes(h) \/ room % h.sigsz # 0 THEN Result(it, "invalid")
       ELSE Result([it EXCEPT !.nmemb = room \div h.sigsz,
                              !.esd = it.esl + EslSize + h.hdrsz], "new")

\* ... and within a list.  The bound is the end of the file, not of the list.
NextOfList(f, it) ==
    LET h == HeadAt(f, it, it.esl)
    IN IF it.esl = Null \/ BadSizes(h) THEN Result(it, "invalid")
       ELSE IF it.esd = Null \/ it.esd + h.sigsz > f.len THEN Result(it, "overflow")
       ELSE Result([it EXCEPT !.esd = @ + h.sigsz], "data")

\* esl_iter_next_with_size_correction: i counts the call, also one that fails.
IterNext(f, it, correct) ==
    LET r == ListNext(f, [it EXCEPT !.i = 0], correct)
    IN IF it.i + 1 # it.nmemb THEN NextOfList(f, [it EXCEPT !.i = @ + 1])
       ELSE IF r.rc = "list" THEN FirstOfList(f, r.it) ELSE r

\* The type, owner and data that are returned.
Item(f, it, rc, corrected) ==
    LET h == HeadAt(f, it, it.esl)
        s == IF it.esd \in DOMAIN f.sigs /\ Len(f.sigs[it.esd].data) = h.sigsz - OwnerSize
             THEN f.sigs[it.esd] ELSE Garbage(h.sigsz - OwnerSize)
    IN [sig |-> [alg |-> h.type, owner |-> s.owner, data |-> s.data],
        first |-> rc = "new", corrected |-> corrected]

\* efi_secdb_parse calls once more, with correction, after an overflow.
Again(f, r) == IF r.rc = "overflow" THEN IterNext(f, r.it, TRUE) ELSE r

-----------------------------------------------------------------------------
(* Files                                                                   *)

EmptyFile == [len |-> 0, heads |-> <<>>, sigs |-> <<>>]

\* At(f, o, x): the function f with x at o
At(f, o, x) == [y \in DOMAIN f \cup {o} |-> IF y = o THEN x ELSE f[y]]

\* secdb_realize_visitor for one more signature; the list it is on starts at
\* esl.
Put(f, item) ==
    LET esl   == IF item.first THEN f.len ELSE f.esl
        esdsz == Len(item.sig.data) + OwnerSize
        heads == IF item.first
                 THEN At(f.heads, esl, [type |-> item.sig.alg, listsz |-> EslSize,
                                        hdrsz |-> 0, sigsz |-> esdsz])
                 ELSE f.heads
        pos   == IF item.first THEN f.len + EslSize ELSE f.len
    IN [len |-> pos + esdsz, esl |-> esl,
        heads |-> [heads EXCEPT ![esl].listsz = @ + esdsz],
        sigs |-> At(f.sigs, pos, [owner |-> item.sig.owner, data |-> item.sig.data])]

\* efi_secdb_realize of the signatures a visitor sees
Image(items) ==
    LET f == FoldLeft(Put, [len |-> 0, esl |-> Null, heads |-> <<>>, sigs |-> <<>>], items)
    IN [len |-> f.len, heads |-> f.heads, sigs |-> f.sigs]

-----------------------------------------------------------------------------
(* What a file holds according to the UEFI specification, for the          *)
(* properties: the signatures of the lists before the first that is        *)
(* damaged.                                                                *)

Sound(f, o) ==
    LET h == f.heads[o]
    IN /\ h.listsz <= f.len - o
       /\ h.listsz > EslSize + h.hdrsz
       /\ (h.listsz - EslSize - h.hdrsz) % h.sigsz = 0

Sure(f, o) == \A p \in DOMAIN f.heads : p <= o => Sound(f, p)

WellFormed(f) == \A o \in DOMAIN f.heads : Sound(f, o)

SigsOfList(f, o) ==
    LET h == f.heads[o]
    IN {[alg |-> h.type, owner |-> f.sigs[p].owner, data |-> f.sigs[p].data] :
            p \in {q \in DOMAIN f.sigs : o < q /\ q < o + h.listsz}}

Contents(f) == UNION {SigsOfList(f, o) : o \in {p \in DOMAIN f.heads : Sure(f, p)}}
=============================================================================
